---- MODULE Spec2Model ----
(***************************************************************************)
(* A model of src/code/src/twitter.py: bag-of-words sentiment pipeline.    *)
(*   - extract_words / extract_dictionary / extract_feature_vectors        *)
(*   - performance (metric evaluator)                                      *)
(*   - cv_performance / select_param_linear (cross-validated sweep)        *)
(* Strings are sequences of one-character strings, so that tokenisation is *)
(* computed and not assumed.  A line is modelled without its terminating    *)
(* newline (str.split() drops it as whitespace).                            *)
(***************************************************************************)
EXTENDS Integers, Sequences, FiniteSets, TLC

VARIABLES
    pc,              \* position of the running function
    corpus,          \* lines of the corpus file read so far by extract_dictionary
    word_list,       \* the vocabulary: token -> index
    infile,          \* the lines of the file handed to extract_feature_vectors
    feature_matrix,  \* the returned matrix: sequence of rows, a row is [0..d-1 -> {0,1}]
    raised,          \* the exception that ended the call, or "none"
    y_true,          \* performance: the known labels
    y_pred,          \* performance: the continuous-valued predictions
    metric,          \* performance: the metric name
    y_label,         \* performance: the binarized predictions
    scorer,          \* performance: the sklearn.metrics call made, with its arguments
    perf,            \* performance: what the call returned or raised
    n_splits,        \* kf: the number of folds of the partitioner
    n_examples,      \* the number of rows of X (and of y)
    ci,              \* select_param_linear: position in C_range of the candidate c
    clf,             \* the classifier instance in use
    next_id,         \* the number of classifier instances constructed so far
    fold,            \* cv_performance: folds taken from kf.split(X, y) so far
    score,           \* cv_performance: the accumulator
    fold_scores,     \* the per-fold scores performance returned in this call
    decided,         \* the last decision_function call: who scored which fold
    cv_result,       \* what cv_performance returned
    log,             \* the lines print(c, perf) wrote
    best_c,          \* select_param_linear: the best candidate so far
    best_perf        \* select_param_linear: its score

dictVars == <<corpus, word_list, infile, feature_matrix, raised>>
perfVars == <<y_true, y_pred, metric, y_label, scorer, perf>>
cvVars == <<n_splits, n_examples, clf, next_id, fold, score, fold_scores, decided,
            cv_result>>
selVars == <<ci, log, best_c, best_perf>>
vars == <<pc, dictVars, perfVars, cvVars, selVars>>

\* ------------------------------------------------------------------ bounds
MaxLines == 2        \* lines in a corpus file
MaxLineLen == 2      \* characters in an enumerated line
MaxN == 2            \* examples handed to performance
MaxFolds == 3        \* folds of the partitioner (main uses 5)
MaxExamples == 4     \* rows of X in a cross-validation (main uses 560)
Precision == 3       \* bits of a float's significand (a Python float has 53)

\* ------------------------------------------------------------ characters
\* string.punctuation, in its order (the loop of extract_words visits it so).
\* The grave accent cannot be written in a TLA+ string and is named "grave".
punctuation ==
    <<"!", "\"", "#", "$", "%", "&", "'", "(", ")", "*", "+", ",", "-", ".",
      "/", ":", ";", "<", "=", ">", "?", "@", "[", "\\", "]", "^", "_", "grave",
      "{", "|", "}", "~">>

Whitespace == {" ", "\t", "\n"}

UpperCase == <<"A","B","C","D","E","F","G","H","I","J","K","L","M",
               "N","O","P","Q","R","S","T","U","V","W","X","Y","Z">>
LowerCase == <<"a","b","c","d","e","f","g","h","i","j","k","l","m",
               "n","o","p","q","r","s","t","u","v","w","x","y","z">>

Range(s) == {s[i] : i \in DOMAIN s}

\* str.lower() on one character
LowerChar(c) ==
    IF \E k \in DOMAIN UpperCase : UpperCase[k] = c
    THEN LowerCase[CHOOSE k \in DOMAIN UpperCase : UpperCase[k] = c]
    ELSE c

Lower(s) == [i \in DOMAIN s |-> LowerChar(s[i])]

\* input_string.replace(c, ' ' + c + ' ')
RECURSIVE Replace(_, _)
Replace(s, c) ==
    IF s = <<>> THEN <<>>
    ELSE (IF Head(s) = c THEN <<" ", c, " ">> ELSE <<Head(s)>>) \o Replace(Tail(s), c)

\* for c in punctuation: input_string = input_string.replace(...)
RECURSIVE ReplaceFrom(_, _)
ReplaceFrom(s, k) ==
    IF k > Len(punctuation) THEN s
    ELSE ReplaceFrom(Replace(s, punctuation[k]), k + 1)

\* str.split(): maximal runs of non-whitespace characters, in order
RECURSIVE SplitAcc(_, _, _)
SplitAcc(s, cur, out) ==
    IF s = <<>> THEN (IF cur = <<>> THEN out ELSE Append(out, cur))
    ELSE IF Head(s) \in Whitespace
         THEN SplitAcc(Tail(s), <<>>, IF cur = <<>> THEN out ELSE Append(out, cur))
         ELSE SplitAcc(Tail(s), Append(cur, Head(s)), out)

Split(s) == SplitAcc(s, <<>>, <<>>)

extract_words(input_string) == Split(Lower(ReplaceFrom(input_string, 1)))

\* ----------------------------------------------------------------- inputs
Alphabet == {"A", "!", " "}

\* the end-to-end scenario of the specification: "I love this!", "I hate this."
ExampleLine1 == <<"I", " ", "l", "o", "v", "e", " ", "t", "h", "i", "s", "!">>
ExampleLine2 == <<"I", " ", "h", "a", "t", "e", " ", "t", "h", "i", "s", ".">>
ExampleCorpus == <<ExampleLine1, ExampleLine2>>
\* a line that repeats a word in both cases: "a A a"
RepeatLine == <<"a", " ", "A", " ", "a">>

EnumLines == UNION {[1..n -> Alphabet] : n \in 0..MaxLineLen}
Lines == EnumLines \cup {ExampleLine1, ExampleLine2, RepeatLine}

\* extract_words of every line of the input universe, as a table (the merge
\* with the empty function makes TLC tabulate it once)
Words == [l \in Lines |-> extract_words(l)] @@ <<>>

\* ------------------------------------------------------ extract_dictionary
\* the index given to a new word: len(word_list)-1, taken before the insertion
NextIndex(wl) == Cardinality(DOMAIN wl) - 1

\* a plausible slip: the membership test forgotten, so that a later
\* occurrence of a word overwrites its index
DictInsertAlways(wl, word) ==
    [t \in DOMAIN wl \cup {word} |-> IF t = word THEN NextIndex(wl) ELSE wl[t]]

\* if word not in word_list: word_list[word] = len(word_list)-1
DictInsert(wl, word) ==
    IF word \in DOMAIN wl THEN wl ELSE wl @@ (word :> NextIndex(wl))

\* for word in words: ...
RECURSIVE DictLine(_, _)
DictLine(wl, words) ==
    IF words = <<>> THEN wl
    ELSE DictLine(DictInsert(wl, Head(words)), Tail(words))

\* the whole of extract_dictionary on a file given as its lines
RECURSIVE DictFrom(_, _)
DictFrom(wl, lines) ==
    IF lines = <<>> THEN wl
    ELSE DictFrom(DictLine(wl, Words[Head(lines)]), Tail(lines))

extract_dictionary(lines) == DictFrom(<<>>, lines)

\* ------------------------------------------------- extract_feature_vectors
\* numpy's resolution of an index along an axis of length d: negative
\* indices count from the end; outside -d..d-1 is an IndexError
InAxis(idx, d) == -d <= idx /\ idx < d
Column(idx, d) == IF idx < 0 THEN idx + d ELSE idx

\* for word in words: feature_matrix[i, word_list[word]] = 1
RECURSIVE SetColumns(_, _, _, _)
SetColumns(row, words, wl, d) ==
    IF words = {} THEN row
    ELSE LET word == CHOOSE w \in words : TRUE
         IN  SetColumns([row EXCEPT ![Column(wl[word], d)] = 1], words \ {word}, wl, d)

\* a plausible slip: counting every occurrence instead of marking presence
FeatureRowCounts(words, wl, d) ==
    [c \in 0..(d - 1) |->
        Cardinality({k \in DOMAIN words : Column(wl[words[k]], d) = c})]

\* row i of np.zeros((num_lines, num_words)) after the loop body:
\* words = set(extract_words(line)), then one assignment per word
FeatureRow(words, wl, d) ==
    SetColumns([c \in 0..(d - 1) |-> 0], Range(words), wl, d)

\* the exception the loop body raises on a line, or "none"
LineError(words, wl, d) ==
    IF \E w \in Range(words) : w \notin DOMAIN wl THEN "KeyError"
    ELSE IF \E w \in Range(words) : ~InAxis(wl[w], d) THEN "IndexError"
    ELSE "none"

extract_feature_vectors(lines, wl) ==
    LET num_lines == Len(lines)
        num_words == Cardinality(DOMAIN wl)
        bad == {i \in 1..num_lines : LineError(Words[lines[i]], wl, num_words) # "none"}
    IN  IF bad # {}
        THEN LET first == CHOOSE i \in bad : \A j \in bad : i <= j
             IN  [raised |-> LineError(Words[lines[first]], wl, num_words),
                  matrix |-> <<>>]
        ELSE [raised |-> "none",
              matrix |-> [i \in 1..num_lines |->
                            FeatureRow(Words[lines[i]], wl, num_words)]]

\* ------------------------------------------------------------- performance
\* a score is a fraction <<numerator, denominator>>
Zero == <<0, 1>>
NoCall == [fn |-> "none", y_true |-> <<>>, y_pred |-> <<>>]
NoResult == [raised |-> "none", value |-> Zero]

Sign(x) == IF x > 0 THEN 1 ELSE IF x < 0 THEN -1 ELSE 0

\* a plausible slip: the line y_label[y_label==0] = 1 left out
SignOnly(yp) == [i \in DOMAIN yp |-> Sign(yp[i])]

\* y_label = np.sign(y_pred); y_label[y_label==0] = 1
Binarize(yp) ==
    LET sgn == [i \in DOMAIN yp |-> Sign(yp[i])]
    IN  [i \in DOMAIN sgn |-> IF sgn[i] = 0 THEN 1 ELSE sgn[i]]

Count(yt, yl, t, l) == Cardinality({i \in DOMAIN yt : yt[i] = t /\ yl[i] = l})

\* sklearn.metrics.accuracy_score: the fraction of agreeing positions
accuracy_score(yt, yl) ==
    [raised |-> "none",
     value |-> <<Cardinality({i \in DOMAIN yt : yt[i] = yl[i]}), Len(yt)>>]

\* sklearn.metrics.f1_score for the positive label 1: 2TP / (2TP + FP + FN),
\* and 0 when that is 0/0
f1_score(yt, yl) ==
    LET tp == Count(yt, yl, 1, 1)
        fp == Count(yt, yl, -1, 1)
        fn == Count(yt, yl, 1, -1)
    IN  [raised |-> "none",
         value |-> IF 2 * tp + fp + fn = 0 THEN Zero ELSE <<2 * tp, 2 * tp + fp + fn>>]

\* sklearn.metrics.roc_auc_score on hard labels: (TPR + TNR) / 2; it raises
\* ValueError when y_true holds one class only
roc_auc_score(yt, yl) ==
    LET p == Cardinality({i \in DOMAIN yt : yt[i] = 1})
        n == Cardinality({i \in DOMAIN yt : yt[i] = -1})
    IN  IF p = 0 \/ n = 0
        THEN [raised |-> "ValueError", value |-> Zero]
        ELSE [raised |-> "none",
              value |-> <<Count(yt, yl, 1, 1) * n + Count(yt, yl, -1, -1) * p, 2 * p * n>>]

KnownMetrics == {"accuracy", "f1_score", "auroc"}
\* "f1-score" is the name the docstring of performance gives
MetricNames == KnownMetrics \cup {"f1-score", "precision"}

\* a plausible slip: an unknown metric name rejected with an exception
UnknownMetricRaises == [raised |-> "ValueError", value |-> Zero]

\* return 0
UnknownMetric == [raised |-> "none", value |-> Zero]

\* performance(y_true, y_pred, metric): the labels, the scorer call, the outcome
performance(yt, yp, m) ==
    LET yl == Binarize(yp)
    IN  IF m = "accuracy"
        THEN [y_label |-> yl,
              scorer |-> [fn |-> "accuracy_score", y_true |-> yt, y_pred |-> yl],
              perf |-> accuracy_score(yt, yl)]
        ELSE IF m = "f1_score"
        THEN [y_label |-> yl,
              scorer |-> [fn |-> "f1_score", y_true |-> yt, y_pred |-> yl],
              perf |-> f1_score(yt, yl)]
        ELSE IF m = "auroc"
        THEN [y_label |-> yl,
              scorer |-> [fn |-> "roc_auc_score", y_true |-> yt, y_pred |-> yl],
              perf |-> roc_auc_score(yt, yl)]
        ELSE [y_label |-> yl, scorer |-> NoCall, perf |-> UnknownMetric]

\* ------------------------------------------------------ float arithmetic
\* A float is m * 2^e with 2^(Precision-1) <= m < 2^Precision, or zero.
\* Python's float operations round the exact result to the nearest float,
\* ties to the even significand.
RECURSIVE Pow2(_)
Pow2(k) == IF k <= 0 THEN 1 ELSE 2 * Pow2(k - 1)

FlZero == [m |-> 0, e |-> 0]
\* float('-inf'): below every float
NegInf == [m |-> -1, e |-> 0]
FlOne == [m |-> Pow2(Precision - 1), e |-> 1 - Precision]
FlHalf == [m |-> Pow2(Precision - 1), e |-> 0 - Precision]

\* the float nearest to (a / b) * 2^e, for a >= 0 and b > 0
RECURSIVE Round(_, _, _)
Round(a, b, e) ==
    IF a = 0 THEN FlZero
    ELSE IF a >= b * Pow2(Precision) THEN Round(a, 2 * b, e + 1)
    ELSE IF a < b * Pow2(Precision - 1) THEN Round(2 * a, b, e - 1)
    ELSE LET q == a \div b
             r == a % b
             up == 2 * r > b \/ (2 * r = b /\ q % 2 = 1)
             m == IF up THEN q + 1 ELSE q
         IN  IF m = Pow2(Precision)
             THEN [m |-> Pow2(Precision - 1), e |-> e + 1]
             ELSE [m |-> m, e |-> e]

MinExp(x, y) == IF x.e <= y.e THEN x.e ELSE y.e
\* x as a multiple of 2^lo, for lo <= x.e
Scaled(x, lo) == x.m * Pow2(x.e - lo)

\* x + y
FlAdd(x, y) ==
    IF x.m = 0 THEN y
    ELSE IF y.m = 0 THEN x
    ELSE LET lo == MinExp(x, y)
         IN  Round(Scaled(x, lo) + Scaled(y, lo), 1, lo)

\* x / n for a positive integer n
FlDiv(x, n) == Round(x.m, n, x.e)

FlLe(x, y) ==
    IF x.m <= 0 \/ y.m <= 0 THEN x.m <= y.m
    ELSE Scaled(x, MinExp(x, y)) <= Scaled(y, MinExp(x, y))
FlLt(x, y) == ~FlLe(y, x)

\* ---------------------------------------------------------- the classifier
\* C_range = 10.0 ** np.arange(-3, 3): a candidate is named by its exponent
C_range == <<-3, -2, -1, 0, 1, 2>>

\* best_c is None, or <<c>> for a candidate c
None == <<>>

NoClf == [id |-> 0, C |-> 0, fitted_on |-> {}, fits |-> 0]
NoDecision == [id |-> 0, C |-> 0, fitted_on |-> {}, fits |-> 0, test |-> {}]

\* SVC(kernel='linear', C=c): a new, unfitted instance
SVC(id, c) == [id |-> id, C |-> c, fitted_on |-> {}, fits |-> 0]

\* clf.fit(X[idx], y[idx]): the instance is trained anew on these rows; what
\* an earlier fit learned is discarded
Fit(c, idx) == [c EXCEPT !.fitted_on = idx, !.fits = @ + 1]

\* clf.decision_function(X[test]): the model that scores, and the rows it scores
Decide(c, test) ==
    [id |-> c.id, C |-> c.C, fitted_on |-> c.fitted_on, fits |-> c.fits, test |-> test]

\* -------------------------------------------------------------- the folds
\* kf.split(X, y) for a k-fold partitioner without shuffling: n_splits
\* consecutive blocks of rows, the first n % k of them one row longer
FoldSize(j, k, n) == (n \div k) + (IF j <= n % k THEN 1 ELSE 0)

RECURSIVE FoldStart(_, _, _)
FoldStart(j, k, n) == IF j <= 1 THEN 1 ELSE FoldStart(j - 1, k, n) + FoldSize(j - 1, k, n)

test_index(j, k, n) == FoldStart(j, k, n)..(FoldStart(j, k, n) + FoldSize(j, k, n) - 1)
train_index(j, k, n) == (1..n) \ test_index(j, k, n)

\* a plausible slip: the classifier fit on all of X instead of X[train_index]
FitOnAll(j, k, n) == 1..n

\* the rows line 184 fits on in fold j: X[train_index]
FitRows(j, k, n) == train_index(j, k, n)

\* ---------------------------------------------------------- cv_performance
\* a plausible slip: the sum returned without dividing
CvSum(total, k) == total

\* return score / kf.get_n_splits()
CvMean(total, k) == FlDiv(total, k)

\* ------------------------------------------------------ select_param_linear
\* a plausible slip: >= in place of >, so that a later tie replaces the best
AtLeast(p, best) == FlLe(best, p)

\* perf > best_perf, where best_perf starts at float('-inf')
Better(p, best) == FlLt(best, p)

\* ----------------------------------------------------------------- actions
\* one iteration of "for line in fid" in extract_dictionary
ReadLine ==
    /\ pc = "dict"
    /\ Len(corpus) < MaxLines
    /\ \E line \in Lines :
          /\ corpus' = Append(corpus, line)
          /\ word_list' = DictLine(word_list, Words[line])
    /\ UNCHANGED <<pc, infile, feature_matrix, raised, perfVars, cvVars, selVars>>

\* end of file: extract_dictionary returns; main hands the same file on
DictReturn ==
    /\ pc = "dict"
    /\ pc' = "features"
    /\ infile' = corpus
    /\ UNCHANGED <<corpus, word_list, feature_matrix, raised, perfVars, cvVars, selVars>>

\* the call extract_feature_vectors(infile, word_list)
ExtractFeatureVectors ==
    /\ pc = "features"
    /\ LET r == extract_feature_vectors(infile, word_list)
       IN  /\ raised' = r.raised
           /\ feature_matrix' = r.matrix
           /\ pc' = IF r.raised = "none" THEN "done" ELSE "error"
    /\ UNCHANGED <<corpus, word_list, infile, perfVars, cvVars, selVars>>

\* the parts of the state a specification does not exercise
IdleDict ==
    /\ corpus = <<>>
    /\ word_list = <<>>
    /\ infile = <<>>
    /\ feature_matrix = <<>>
    /\ raised = "none"

IdlePerf ==
    /\ y_true = <<>>
    /\ y_pred = <<>>
    /\ metric = "accuracy"
    /\ y_label = <<>>
    /\ scorer = NoCall
    /\ perf = NoResult

IdleCv ==
    /\ n_splits = 0
    /\ n_examples = 0
    /\ clf = NoClf
    /\ next_id = 0
    /\ fold = 0
    /\ score = FlZero
    /\ fold_scores = <<>>
    /\ decided = NoDecision
    /\ cv_result = FlZero

IdleSel ==
    /\ ci = 0
    /\ log = <<>>
    /\ best_c = None
    /\ best_perf = NegInf

InitDict ==
    /\ pc = "dict"
    /\ IdleDict
    /\ IdlePerf
    /\ IdleCv
    /\ IdleSel

NextDict == ReadLine \/ DictReturn \/ ExtractFeatureVectors

SpecDict == InitDict /\ [][NextDict]_vars

\* extract_feature_vectors called on its own, with a vocabulary built from
\* one file and the lines of another
Corpora == UNION {[1..n -> Lines] : n \in 0..MaxLines}

InitVec ==
    /\ pc = "features"
    /\ corpus \in Corpora
    /\ word_list = extract_dictionary(corpus)
    /\ infile \in Corpora
    /\ feature_matrix = <<>>
    /\ raised = "none"
    /\ IdlePerf
    /\ IdleCv
    /\ IdleSel

NextVec == ExtractFeatureVectors

SpecVec == InitVec /\ [][NextVec]_vars

\* performance called on its own
Labels == {-1, 1}
\* decision values: sign and magnitude
PredValues == {-2, -1, 0, 1, 2}

CallPerformance ==
    /\ pc = "perf_call"
    /\ LET r == performance(y_true, y_pred, metric)
       IN  /\ y_label' = r.y_label
           /\ scorer' = r.scorer
           /\ perf' = r.perf
    /\ pc' = "perf_ret"
    /\ UNCHANGED <<y_true, y_pred, metric, dictVars, cvVars, selVars>>

InitPerf ==
    /\ pc = "perf_call"
    /\ \E n \in 1..MaxN :
          /\ y_true \in [1..n -> Labels]
          /\ y_pred \in [1..n -> PredValues]
    /\ metric \in MetricNames
    /\ y_label = <<>>
    /\ scorer = NoCall
    /\ perf = NoResult
    /\ IdleDict
    /\ IdleCv
    /\ IdleSel

NextPerf == CallPerformance

SpecPerf == InitPerf /\ [][NextPerf]_vars

\* ------------------------------------- cv_performance, select_param_linear
\* every float of [1/4, 1], and 0: the scores performance can return
ScoreDomain ==
    {FlZero, FlOne} \cup
    {[m |-> m, e |-> e] : m \in Pow2(Precision - 1)..(Pow2(Precision) - 1),
                          e \in {-1 - Precision, 0 - Precision}}

\* the scores drawn in a sweep, where only their order matters
CoarseScores == {FlHalf, FlOne}

\* one iteration of "for train_index, test_index in kf.split(X, y)":
\* fit, decision_function, performance, accumulate
FoldStep(scores) ==
    /\ pc = "cv_fold"
    /\ fold < n_splits
    /\ LET j == fold + 1
           fitted == Fit(clf, FitRows(j, n_splits, n_examples))
       IN  /\ clf' = fitted
           /\ decided' = Decide(fitted, test_index(j, n_splits, n_examples))
           /\ fold' = j
    /\ \E s \in scores :
          /\ score' = FlAdd(score, s)
          /\ fold_scores' = Append(fold_scores, s)
    /\ UNCHANGED <<pc, n_splits, n_examples, next_id, cv_result,
                   dictVars, perfVars, selVars>>

\* the partitioner is exhausted: return score / kf.get_n_splits()
CvReturn(to) ==
    /\ pc = "cv_fold"
    /\ fold = n_splits
    /\ cv_result' = CvMean(score, n_splits)
    /\ pc' = to
    /\ UNCHANGED <<n_splits, n_examples, clf, next_id, fold, score, fold_scores,
                   decided, dictVars, perfVars, selVars>>

\* "for c in C_range": clf = SVC(kernel='linear', C=c) and the call of
\* cv_performance, which starts with score = 0
NewCandidate ==
    /\ pc = "sweep"
    /\ ci < Len(C_range)
    /\ ci' = ci + 1
    /\ next_id' = next_id + 1
    /\ clf' = SVC(next_id + 1, C_range[ci + 1])
    /\ fold' = 0
    /\ score' = FlZero
    /\ fold_scores' = <<>>
    /\ pc' = "cv_fold"
    /\ UNCHANGED <<n_splits, n_examples, decided, cv_result, log, best_c, best_perf,
                   dictVars, perfVars>>

\* perf = (the value returned); print(c, perf); if perf > best_perf: ...
Compare ==
    /\ pc = "compare"
    /\ log' = Append(log, [c |-> C_range[ci], perf |-> cv_result])
    /\ IF Better(cv_result, best_perf)
       THEN best_perf' = cv_result /\ best_c' = <<C_range[ci]>>
       ELSE UNCHANGED <<best_perf, best_c>>
    /\ pc' = "sweep"
    /\ UNCHANGED <<ci, cvVars, dictVars, perfVars>>

\* return best_c
SelectReturn ==
    /\ pc = "sweep"
    /\ ci = Len(C_range)
    /\ pc' = "sweep_done"
    /\ UNCHANGED <<dictVars, perfVars, cvVars, selVars>>

InitFolds ==
    /\ n_splits \in 2..MaxFolds
    /\ n_examples \in n_splits..MaxExamples
    /\ fold = 0
    /\ score = FlZero
    /\ fold_scores = <<>>
    /\ decided = NoDecision
    /\ cv_result = FlZero

\* cv_performance called on its own with a new classifier
InitCv ==
    /\ pc = "cv_fold"
    /\ InitFolds
    /\ next_id = 1
    /\ clf = SVC(1, C_range[1])
    /\ IdleSel
    /\ IdleDict
    /\ IdlePerf

NextCv == FoldStep(ScoreDomain) \/ CvReturn("cv_done")

SpecCv == InitCv /\ [][NextCv]_vars

\* select_param_linear
InitSel ==
    /\ pc = "sweep"
    /\ InitFolds
    /\ next_id = 0
    /\ clf = NoClf
    /\ IdleSel
    /\ IdleDict
    /\ IdlePerf

NextSel == NewCandidate \/ FoldStep(CoarseScores) \/ CvReturn("compare") \/ Compare
              \/ SelectReturn

SpecSel == InitSel /\ [][NextSel]_vars

\* ---------------------------------------------- properties: vocabulary
Tokens(line) == Range(Words[line])
AllTokens(lines) == UNION {Tokens(lines[i]) : i \in DOMAIN lines}
Size(wl) == Cardinality(DOMAIN wl)

RECURSIVE Flatten(_)
Flatten(lines) ==
    IF lines = <<>> THEN <<>> ELSE Words[Head(lines)] \o Flatten(Tail(lines))

\* the distinct tokens of a token sequence, in the order of their first occurrence
RECURSIVE FirstOccurrences(_, _)
FirstOccurrences(toks, seen) ==
    IF toks = <<>> THEN <<>>
    ELSE IF Head(toks) \in seen THEN FirstOccurrences(Tail(toks), seen)
         ELSE <<Head(toks)>> \o FirstOccurrences(Tail(toks), seen \cup {Head(toks)})

\* C1 (as claimed): every stored index is a valid, distinct, non-negative
\* offset: 0 <= word_list[t] < len(word_list), no two tokens share an index,
\* after every insertion, the first included.
C1_IndicesValid ==
    /\ \A t \in DOMAIN word_list : 0 <= word_list[t] /\ word_list[t] < Size(word_list)
    /\ \A t, u \in DOMAIN word_list : t # u => word_list[t] # word_list[u]

\* C4: the keys are exactly the distinct tokens of the lines read; successive
\* first occurrences get successive indices (no gaps); and no step changes
\* the index of a token already present.
C4_KeysAndOrder ==
    /\ DOMAIN word_list = AllTokens(corpus)
    /\ LET order == FirstOccurrences(Flatten(corpus), {})
       IN  /\ Len(order) = Size(word_list)
           /\ \A k \in 1..(Len(order) - 1) :
                  word_list[order[k + 1]] = word_list[order[k]] + 1

C4_Stable ==
    \A t \in DOMAIN word_list : t \in DOMAIN word_list' /\ word_list'[t] = word_list[t]

C4_Vocabulary == [](C4_KeysAndOrder) /\ [][C4_Stable]_vars

\* a token of the first line occurs again in the second, which also brings a new one
C4_Witness ==
    /\ pc = "dict"
    /\ Len(corpus) = 2
    /\ Tokens(corpus[1]) \cap Tokens(corpus[2]) # {}
    /\ Tokens(corpus[2]) \ Tokens(corpus[1]) # {}

\* ------------------------------------------ properties: feature matrix
Col(t) == Column(word_list[t], Size(word_list))
Ones(row) == {c \in DOMAIN row : row[c] = 1}

\* C2: on a corpus and the vocabulary built from it the call returns; every
\* row has length d = len(word_list) and entries in {0,1}; the entry of row i
\* at token t's column is 1 iff t occurs in line i; no two tokens share a
\* column; and the two-line example gives the 2x6 matrix of the scenario.
C2_PresenceMatrix ==
    /\ pc # "error"
    /\ pc = "done" =>
          /\ DOMAIN feature_matrix = 1..Len(infile)
          /\ \A i \in DOMAIN feature_matrix :
                /\ DOMAIN feature_matrix[i] = 0..(Size(word_list) - 1)
                /\ \A c \in DOMAIN feature_matrix[i] : feature_matrix[i][c] \in {0, 1}
                /\ \A t \in DOMAIN word_list :
                      /\ Col(t) \in DOMAIN feature_matrix[i]
                      /\ feature_matrix[i][Col(t)] = 1 <=> t \in Tokens(infile[i])
          /\ \A t, u \in DOMAIN word_list : t # u => Col(t) # Col(u)
          /\ infile = ExampleCorpus =>
                /\ Len(feature_matrix) = 2
                /\ Size(word_list) = 6
                /\ Ones(feature_matrix[1]) =
                      {Col(<<"i">>), Col(<<"l", "o", "v", "e">>),
                       Col(<<"t", "h", "i", "s">>), Col(<<"!">>)}
                /\ Ones(feature_matrix[2]) =
                      {Col(<<"i">>), Col(<<"h", "a", "t", "e">>),
                       Col(<<"t", "h", "i", "s">>), Col(<<".">>)}
                /\ Cardinality(Ones(feature_matrix[1])) = 4
                /\ Cardinality(Ones(feature_matrix[2])) = 4

\* the matrix of a corpus with a token repeated within one line and a line
\* that lacks a vocabulary token
C2_Witness ==
    /\ pc = "done"
    /\ \E i \in DOMAIN infile :
          /\ Len(Words[infile[i]]) > Cardinality(Tokens(infile[i]))
          /\ \E t \in DOMAIN word_list : t \notin Tokens(infile[i])

\* C3 (as claimed): a token that is not a key of the vocabulary is ignored:
\* the call does not raise and the known tokens of every line set their columns.
C3_UnknownIgnored ==
    pc # "features" =>
       /\ raised = "none"
       /\ \A i \in DOMAIN infile :
             \A t \in Tokens(infile[i]) \cap DOMAIN word_list :
                 feature_matrix[i][Col(t)] = 1

\* C5 (as claimed): one row per non-blank line; blank or whitespace-only
\* lines contribute no row.
NonBlank(line) == \E k \in DOMAIN line : line[k] \notin Whitespace

C5_RowsAreNonBlankLines ==
    pc = "done" =>
       Len(feature_matrix) = Cardinality({i \in DOMAIN infile : NonBlank(infile[i])})

\* ------------------------------------------------ properties: performance
ScorerOf(m) ==
    IF m = "accuracy" THEN "accuracy_score"
    ELSE IF m = "f1_score" THEN "f1_score" ELSE "roc_auc_score"

\* C7: every prediction is binarized to -1 or +1 before scoring: positive
\* gives +1, negative -1, exactly 0 gives +1; and for accuracy, f1_score and
\* auroc the scoring function receives the true labels and these labels.
C7_Binarized ==
    pc = "perf_ret" =>
       /\ DOMAIN y_label = DOMAIN y_pred
       /\ \A i \in DOMAIN y_pred :
             /\ y_label[i] \in {-1, 1}
             /\ y_pred[i] > 0 => y_label[i] = 1
             /\ y_pred[i] < 0 => y_label[i] = -1
             /\ y_pred[i] = 0 => y_label[i] = 1
       /\ metric \in KnownMetrics =>
             scorer = [fn |-> ScorerOf(metric), y_true |-> y_true, y_pred |-> y_label]

\* auroc scored on predictions of which one is exactly 0 and one is not a label
C7_Witness ==
    /\ pc = "perf_ret"
    /\ metric = "auroc"
    /\ \E i, j \in DOMAIN y_pred : y_pred[i] = 0 /\ y_pred[j] \notin {-1, 0, 1}

RECURSIVE Pow(_, _)
Pow(b, k) == IF k <= 0 THEN 1 ELSE b * Pow(b, k - 1)

Abs(x) == IF x < 0 THEN 0 - x ELSE x

\* an exponent no greater than that of any fold score or of the result
LowExp == CHOOSE lo \in {x.e : x \in Range(fold_scores) \cup {cv_result}} :
             \A x \in Range(fold_scores) \cup {cv_result} : lo <= x.e

RECURSIVE SumScaled(_, _)
SumScaled(xs, lo) ==
    IF xs = <<>> THEN 0 ELSE Scaled(Head(xs), lo) + SumScaled(Tail(xs), lo)

WithinMinMax ==
    /\ \E i \in DOMAIN fold_scores : FlLe(fold_scores[i], cv_result)
    /\ \E i \in DOMAIN fold_scores : FlLe(cv_result, fold_scores[i])

\* C9 (as claimed): one fit and one score per fold, and the returned mean
\* always lies within [min(per-fold scores), max(per-fold scores)].
C9_MeanWithinMinMax ==
    pc = "cv_done" =>
       /\ Len(fold_scores) = n_splits
       /\ clf.fits = n_splits
       /\ WithinMinMax

\* C9 (amended): one fit and one score per fold yielded; the value returned is
\* the float-accumulated sum divided by the number of folds: it differs from
\* the exact mean by a relative error of at most (1 + 2^-p)^k - 1 (k folds, p
\* significand bits), and lies within [min, max] whenever it is the exact mean.
C9_MeanUpToRounding ==
    pc = "cv_done" =>
       /\ Len(fold_scores) = n_splits
       /\ fold = n_splits
       /\ clf.fits = n_splits
       /\ LET total == SumScaled(fold_scores, LowExp)
              got == Scaled(cv_result, LowExp) * n_splits
          IN  /\ Abs(got - total) * Pow2(Precision * n_splits)
                    <= (Pow(Pow2(Precision) + 1, n_splits)
                          - Pow2(Precision * n_splits)) * total
              /\ got = total => WithinMinMax

\* a call whose folds scored differently and whose sum was rounded
C9_Witness ==
    /\ pc = "cv_done"
    /\ \E i, j \in DOMAIN fold_scores : fold_scores[i] # fold_scores[j]
    /\ Scaled(cv_result, LowExp) * n_splits # SumScaled(fold_scores, LowExp)

\* ------------------------------------------------- properties: the sweep
\* C6: the sweep returns one of the six grid values, the earliest candidate
\* in grid order whose cross-validation score is the maximum over the grid.
C6_EarliestMaximum ==
    pc = "sweep_done" =>
       /\ Len(log) = Len(C_range)
       /\ \A i \in DOMAIN log : log[i].c = C_range[i]
       /\ Len(best_c) = 1
       /\ best_c[1] \in Range(C_range)
       /\ \E i \in DOMAIN log :
             /\ best_c = <<C_range[i]>>
             /\ \A j \in DOMAIN log : FlLe(log[j].perf, log[i].perf)
             /\ \A j \in 1..(i - 1) : FlLt(log[j].perf, log[i].perf)

\* the maximum is reached twice, and not by the first candidate
C6_Witness ==
    /\ pc = "sweep_done"
    /\ \E i, j \in DOMAIN log :
          /\ 1 < i /\ i < j
          /\ log[i].perf = log[j].perf
          /\ \A k \in DOMAIN log : FlLe(log[k].perf, log[i].perf)
          /\ FlLt(log[1].perf, log[i].perf)

====
